---- MODULE Spec2Model ----
(***************************************************************************)
(* Model of the streamed chat response path of ai-chat-ui:                 *)
(*   ApiClient.chatStream   (src/ai-chat-ui/src/api/client.ts)             *)
(*   useConversations.sendMessage and its onEvent callback                 *)
(*                          (src/ai-chat-ui/src/hooks/useConversations.ts) *)
(*   MessageBubble.parseContent (src/unnamed/part_001)                     *)
(*                                                                         *)
(* Text is a sequence of characters; a character is a one-element token    *)
(* (a string).  The CJK characters of the two markers are written as       *)
(* their pinyin tokens ("si" for U+601D, ...), U+00E9 as "E9" and its two  *)
(* UTF-8 bytes as "C3", "A9".  JSON texts are written in a compact         *)
(* notation: "{" k body "}" where the kind character k and the body stand  *)
(* for                                                                     *)
(*   t  {"type":"thinking_process","data":{"message":"body"}}              *)
(*   d  {"type":"text_message_delta","data":{"content":"body"}}            *)
(*   e  {"type":"text_message_end","data":{"message_id":body}}             *)
(*   u  {"type":"run_started","data":{"message":"body"}}                   *)
(* with the JSON string escape \n inside a body.                           *)
(***************************************************************************)
EXTENDS Integers, Sequences, FiniteSets, TLC

(***************************************************************************)
(* Bounds of the model.                                                    *)
(***************************************************************************)
MaxLines == 2
MaxClock == 1
MaxFiles == 2
MaxAnswer == 2
MaxCreates == 1

(***************************************************************************)
(* Text helpers (JavaScript String methods).                               *)
(***************************************************************************)
NL == "\n"

WhiteSpace == {" ", "\n", "\r", "\t"}

SubStr(s, from, to) == [i \in 1..(IF to >= from THEN to - from + 1 ELSE 0) |-> s[from + i - 1]]

Slice(s, n) == SubStr(s, n + 1, Len(s))

StartsWith(s, prefix) ==
    /\ Len(s) >= Len(prefix)
    /\ SubStr(s, 1, Len(prefix)) = prefix

RECURSIVE Split(_, _)
Split(s, sep) ==
    IF \E i \in 1..Len(s) : s[i] = sep
    THEN LET i == CHOOSE j \in 1..Len(s) : s[j] = sep /\ \A k \in 1..(j - 1) : s[k] # sep
         IN  <<SubStr(s, 1, i - 1)>> \o Split(Slice(s, i), sep)
    ELSE <<s>>

RECURSIVE Trim(_)
Trim(s) ==
    IF s = <<>> THEN s
    ELSE IF s[1] \in WhiteSpace THEN Trim(Tail(s))
    ELSE IF s[Len(s)] \in WhiteSpace THEN Trim(SubStr(s, 1, Len(s) - 1))
    ELSE s

(***************************************************************************)
(* TextDecoder.decode(value, {stream: true}) for UTF-8: an incomplete      *)
(* multi-byte character at the end of a chunk is kept for the next call;   *)
(* a malformed sequence decodes to U+FFFD.                                 *)
(***************************************************************************)
LeadBytes == {"C3"}
ContBytes == {"A9"}
Replacement == "FFFD"

NoChar == "none"

IsChar(c) == c # NoChar

\* the character completed by byte i of the pending and new bytes put together
DecodedAt(all, i) ==
    IF all[i] \in LeadBytes
    THEN IF i = Len(all) \/ all[i + 1] \in ContBytes THEN NoChar ELSE Replacement
    ELSE IF all[i] \in ContBytes
    THEN IF i > 1 /\ all[i - 1] \in LeadBytes THEN "E9" ELSE Replacement
    ELSE all[i]

Decode(pending, bytes) ==
    LET all == pending \o bytes
    IN  [text    |-> SelectSeq([i \in 1..Len(all) |-> DecodedAt(all, i)], IsChar),
         pending |-> IF all # <<>> /\ all[Len(all)] \in LeadBytes
                     THEN <<all[Len(all)]>> ELSE <<>>]

(***************************************************************************)
(* JSON.parse on the compact notation.  Leading and trailing white space   *)
(* is allowed, as in JSON; anything that is not a complete object throws   *)
(* SyntaxError.                                                            *)
(***************************************************************************)
SyntaxError == [type |-> "SyntaxError"]

Digits == <<"0", "1", "2", "3", "4", "5", "6", "7", "8", "9">>

DigitValue(c) == (CHOOSE i \in 1..10 : Digits[i] = c) - 1

IsDigit(c) == \E i \in 1..10 : Digits[i] = c

RECURSIVE ParseNumber(_, _)
ParseNumber(s, acc) ==
    IF s = <<>> THEN acc ELSE ParseNumber(Tail(s), 10 * acc + DigitValue(Head(s)))

\* a JSON string body: no raw control character, quote or brace of the
\* notation, every backslash followed by n
RECURSIVE ValidStringBody(_)
ValidStringBody(s) ==
    IF s = <<>> THEN TRUE
    ELSE IF s[1] = "\\" THEN Len(s) >= 2 /\ s[2] = "n" /\ ValidStringBody(Slice(s, 2))
    ELSE s[1] \notin {"{", "}", "\n", "\r", "\t", Replacement} /\ ValidStringBody(Tail(s))

RECURSIVE Unescape(_)
Unescape(s) ==
    IF s = <<>> THEN <<>>
    ELSE IF s[1] = "\\" THEN <<NL>> \o Unescape(Slice(s, 2))
    ELSE <<s[1]>> \o Unescape(Tail(s))

JSONParse(text) ==
    LET t    == Trim(text)
        body == SubStr(t, 3, Len(t) - 1)
    IN  IF Len(t) < 3 \/ t[1] # "{" \/ t[Len(t)] # "}" THEN SyntaxError
        ELSE IF t[2] = "t" /\ ValidStringBody(body)
             THEN [type |-> "thinking_process", data |-> [message |-> Unescape(body)]]
        ELSE IF t[2] = "d" /\ ValidStringBody(body)
             THEN [type |-> "text_message_delta", data |-> [content |-> Unescape(body)]]
        ELSE IF t[2] = "e" /\ body # <<>> /\ \A i \in 1..Len(body) : IsDigit(body[i])
             THEN [type |-> "text_message_end", data |-> [message_id |-> ParseNumber(body, 0)]]
        ELSE IF t[2] = "u" /\ ValidStringBody(body)
             THEN [type |-> "run_started", data |-> [message |-> Unescape(body)]]
        ELSE SyntaxError

(***************************************************************************)
(* The body of chatStream's read loop for one decoded chunk: split on      *)
(* "\n", keep the lines that start with "data: ", parse the rest of each;  *)
(* a line whose payload throws is skipped with a warning.  The result is   *)
(* the sequence of events handed to onEvent, in order.                     *)
(***************************************************************************)
DataPrefix == <<"d", "a", "t", "a", ":", " ">>

RECURSIVE EventsOfLines(_)
EventsOfLines(lines) ==
    IF lines = <<>> THEN <<>>
    ELSE LET line == Head(lines)
             rest == EventsOfLines(Tail(lines))
         IN  IF StartsWith(line, DataPrefix)
             THEN LET eventData == JSONParse(Slice(line, 6))
                  IN  IF eventData = SyntaxError THEN rest ELSE <<eventData>> \o rest
             ELSE rest

EventsOfChunk(chunk) == EventsOfLines(Split(chunk, NL))

(***************************************************************************)
(* The composite encoding built by sendMessage's callback.                 *)
(***************************************************************************)
ThinkingMarker == <<"[", "si", "kao", "guo", "cheng", "]">>

ModelMarker == <<"[", "mo", "xing", "hui", "fu", "]">>

\* `[思考过程]\n${thinkingProcess}[模型回复]\n${accumulatedContent}`
Composite(thinking, answer) ==
    ThinkingMarker \o <<NL>> \o thinking \o ModelMarker \o <<NL>> \o answer

\* mutant: the labelled form whatever the thinking buffer holds
FormattedContentAlwaysLabelled(thinking, answer) == Composite(thinking, answer)

\* thinkingProcess ? composite : accumulatedContent
FormattedContent(thinking, answer) ==
    IF thinking # <<>> THEN Composite(thinking, answer) ELSE answer

\* mutant: the separator after a thinking message is forgotten
AppendThinkingNoSeparator(thinking, message) == thinking \o message

\* thinkingProcess += event.data.message + '\n'
AppendThinking(thinking, message) == thinking \o message \o <<NL>>

\* mutant: = instead of +=
AppendAnswerOverwrites(answer, content) == content

\* accumulatedContent += event.data.content
AppendAnswer(answer, content) == answer \o content

(***************************************************************************)
(* MessageBubble.parseContent: the reading of a composite by the           *)
(* presentation layer.                                                     *)
(***************************************************************************)
\* String.indexOf: the 0-based index of the first occurrence, or -1
IndexOf(s, sub) ==
    LET hits == {i \in 0..(Len(s) - Len(sub)) : SubStr(s, i + 1, i + Len(sub)) = sub}
    IN  IF hits = {} THEN -1 ELSE CHOOSE i \in hits : \A j \in hits : i <= j

Includes(s, sub) == IndexOf(s, sub) >= 0

parseContent(content) ==
    LET hasThinkingProcess == Includes(content, ThinkingMarker)
        hasModelResponse   == Includes(content, ModelMarker)
        thinkingStart      == IndexOf(content, ThinkingMarker) + 6
        modelStart         == IndexOf(content, ModelMarker)
    IN  IF hasThinkingProcess /\ hasModelResponse /\ thinkingStart >= 6
           /\ modelStart > thinkingStart
        THEN [thinking |-> Trim(SubStr(content, thinkingStart + 1, modelStart)),
              model    |-> Trim(Slice(content, modelStart + 6))]
        ELSE [thinking |-> <<>>, model |-> content]

\* mutant: a final else branch that treats every other event as thinking text
EventBranchWithDefault(event) ==
    IF event.type = "text_message_delta" THEN "delta"
    ELSE IF event.type = "text_message_end" THEN "end"
    ELSE "thinking"

\* the branch of the callback taken for an event
EventBranch(event) ==
    IF event.type = "thinking_process" THEN "thinking"
    ELSE IF event.type = "text_message_delta" THEN "delta"
    ELSE IF event.type = "text_message_end" THEN "end"
    ELSE "none"

(***************************************************************************)
(* Conversations state of the useConversations hook and its updaters.      *)
(***************************************************************************)
\* Date.now(): milliseconds since the epoch, far above every backend id
Epoch == 1000

DateNow(clock) == Epoch + clock

UserMessage(id, content) == [id |-> id, role |-> "user", content |-> content]

\* mutant: the placeholder starts with a typing indicator
TempAiMessageWithIndicator(id) == [id |-> id, role |-> "assistant", content |-> <<".">>]

TempAiMessage(id) == [id |-> id, role |-> "assistant", content |-> <<>>]

\* mutant: the message is put before the others
AddMessageAtHead(prev, cid, message, stamp) ==
    [i \in 1..Len(prev) |->
        IF prev[i].id = cid
        THEN [prev[i] EXCEPT !.messages = <<message>> \o @, !.updated_at = stamp]
        ELSE prev[i]]

\* prev.map(conv => conv.id === conversationId
\*            ? {...conv, messages: [...conv.messages, message], updated_at} : conv)
AddMessage(prev, cid, message, stamp) ==
    [i \in 1..Len(prev) |->
        IF prev[i].id = cid
        THEN [prev[i] EXCEPT !.messages = Append(@, message), !.updated_at = stamp]
        ELSE prev[i]]

\* the updater of the thinking_process and text_message_delta branches
SetContent(prev, cid, mid, content, stamp) ==
    [i \in 1..Len(prev) |->
        IF prev[i].id = cid
        THEN [prev[i] EXCEPT
                !.messages = [j \in 1..Len(@) |->
                                IF @[j].id = mid THEN [@[j] EXCEPT !.content = content]
                                ELSE @[j]],
                !.updated_at = stamp]
        ELSE prev[i]]

\* mutant: the final content is stored but the provisional id is kept
ReplaceMessageKeepsId(prev, cid, mid, finalId, content, stamp) ==
    [i \in 1..Len(prev) |->
        IF prev[i].id = cid
        THEN [prev[i] EXCEPT
                !.messages = [j \in 1..Len(@) |->
                                IF @[j].id = mid THEN [@[j] EXCEPT !.content = content]
                                ELSE @[j]],
                !.updated_at = stamp]
        ELSE prev[i]]

\* the updater of the catch: messages.filter(msg => msg.id !== Date.now()
\*                                               && msg.id !== Date.now() + 1)
RemoveTemporary(prev, cid, dateNow, stamp) ==
    [i \in 1..Len(prev) |->
        IF prev[i].id = cid
        THEN [prev[i] EXCEPT
                !.messages = SelectSeq(@, LAMBDA msg : msg.id # dateNow /\ msg.id # dateNow + 1),
                !.updated_at = stamp]
        ELSE prev[i]]

\* mutant: the catch swallows the error
RethrowNothing(err) == "null"

\* catch (err) { ...; throw err; }
Rethrow(err) == err

\* mutant: releaseLock() after the loop instead of in finally
ReleasedUnlessFailing(count, failing) == IF failing THEN count ELSE count + 1

\* try { ... } finally { reader.releaseLock() }
Released(count, failing) == count + 1

\* the updater of the text_message_end branch
ReplaceMessage(prev, cid, mid, finalId, content, stamp) ==
    [i \in 1..Len(prev) |->
        IF prev[i].id = cid
        THEN [prev[i] EXCEPT
                !.messages = [j \in 1..Len(@) |->
                                IF @[j].id = mid
                                THEN [@[j] EXCEPT !.id = finalId, !.content = content]
                                ELSE @[j]],
                !.updated_at = stamp]
        ELSE prev[i]]

(***************************************************************************)
(* Response bodies.  A body is a sequence of lines, each followed by "\n". *)
(***************************************************************************)
DataLine(payload) == DataPrefix \o payload

ThinkingLine(body) == DataLine(<<"{", "t">> \o body \o <<"}">>)

DeltaLine(body) == DataLine(<<"{", "d">> \o body \o <<"}">>)

EndLine(body) == DataLine(<<"{", "e">> \o body \o <<"}">>)

OtherLine(body) == DataLine(<<"{", "u">> \o body \o <<"}">>)

MalformedLine == DataLine(<<"{", "d", "X">>)

KeepAliveLine == <<":", "k">>

LineSet ==
    { ThinkingLine(<<"C3", "A9">>), DeltaLine(<<"X">>), EndLine(<<"4", "2">>),
      OtherLine(<<"z">>), MalformedLine, KeepAliveLine }

\* thinking_process("a\n"), thinking_process("b\n"), text_message_delta("X"),
\* text_message_delta("Y"), text_message_end(id=42)
ExampleLines ==
    << ThinkingLine(<<"a", "\\", "n">>), ThinkingLine(<<"b", "\\", "n">>),
       DeltaLine(<<"X">>), DeltaLine(<<"Y">>), EndLine(<<"4", "2">>) >>

\* a malformed payload between two valid events
MalformedBetweenLines == << DeltaLine(<<"X">>), MalformedLine, DeltaLine(<<"Y">>) >>

\* two text_message_end events with different identifiers
TwoEndsLines == << DeltaLine(<<"X">>), EndLine(<<"4", "2">>), EndLine(<<"4", "3">>) >>

RECURSIVE SeqsUpTo(_, _)
SeqsUpTo(S, n) ==
    IF n = 0 THEN {<<>>}
    ELSE LET shorter == SeqsUpTo(S, n - 1)
         IN  shorter \cup {Append(s, x) : s \in shorter, x \in S}

LineSeqs == SeqsUpTo(LineSet, MaxLines) \cup {ExampleLines, MalformedBetweenLines, TwoEndsLines}

RECURSIVE BodyOf(_)
BodyOf(lines) == IF lines = <<>> THEN <<>> ELSE Head(lines) \o <<NL>> \o BodyOf(Tail(lines))

Bodies == {BodyOf(ls) : ls \in LineSeqs}

(***************************************************************************)
(* State.                                                                  *)
(***************************************************************************)
VARIABLES
    conversations,       \* useConversations: the conversations state
    now,                 \* the wall clock read by Date.now() / new Date()
    pc,                  \* position of the one sendMessage call
    conversationId,      \* sendMessage: its conversationId argument
    userMessageId,       \* sendMessage: userMessage.id
    tempAiMessageId,     \* sendMessage: tempAiMessageId
    accumulatedContent,  \* sendMessage: accumulatedContent
    thinkingProcess,     \* sendMessage: thinkingProcess
    body,                \* chatStream: the bytes of response.body
    pos,                 \* chatStream: bytes already returned by reader.read()
    decoderPending,      \* chatStream: bytes held back by the TextDecoder
    queue,               \* chatStream: events of the current chunk not yet handed to onEvent
    delivered,           \* history: the events handed to onEvent so far
    error,               \* useConversations: error
    requests,            \* number of chat requests issued (fetch calls of chatStream)
    lockAcquired,        \* chatStream: number of response.body.getReader() calls
    lockReleased,        \* chatStream: number of reader.releaseLock() calls
    thrown,              \* the error rethrown to the caller of the hook's function
    activeConversationId,\* useConversations: activeConversationId
    calls,               \* create/delete calls awaiting the API, with their closures
    created,             \* number of conversations the backend has created
    settled,             \* history: the call that completed last, with its outcome
    sends,               \* concurrent sendMessage calls: the locals of each call
    message,             \* MessageBubble: the message prop
    isNewMessage,        \* MessageBubble: the isNewMessage prop
    mounted,             \* MessageBubble: the effect has run
    displayedThinking, displayedModel, isThinkingStreaming, isModelStreaming,
    thinkingIntervalRef, modelIntervalRef, thinkingStepsRef, thinkingStepIndexRef,
    index,               \* typeModel: let index
    isLoading,           \* ChatPage: isLoading
    pageError,           \* ChatPage: error
    disabled,            \* MessageInput: the disabled prop of the last render
    input, uploading, uploadedFiles,   \* MessageInput / useFileUpload state
    showToolMenu,        \* MessageInput: showToolMenu
    inFlight,            \* number of sendMessage calls that have not settled
    token,               \* ApiClient: this.token
    storedToken,         \* localStorage: the item 'token'
    storedUser,          \* localStorage: the item 'user'
    user,                \* useAuth: authState.user
    loaded,              \* the page has been loaded: apiClient is constructed
    logins,              \* login calls awaiting the API
    authorization,       \* the Authorization header of the last request since login/logout
    loggedOut,           \* history: logout ran and no login has succeeded since
    prevMessageCountRef, \* ChatArea: prevMessageCountRef.current
    prevIsLoadingRef,    \* ChatArea: prevIsLoadingRef.current
    streamingMessageIds, \* ChatArea: streamingMessageIds
    newlyAppended,       \* history: the assistant message the last commit appended, if any
    thinkingText,        \* the thinking text of the composite being parsed
    answerText,          \* the answer text of the composite being parsed
    parseResult,         \* the result of parseContent
    eventCount           \* number of events the two texts were built from

sendVars == <<pc, conversationId, userMessageId, tempAiMessageId>>

accVars == <<accumulatedContent, thinkingProcess>>

streamVars == <<body, pos, decoderPending, queue>>

chatVars == <<error, requests, lockAcquired, lockReleased, thrown>>
convVars == <<activeConversationId, calls, created, settled>>
bubbleVars == <<message, isNewMessage, mounted, displayedThinking, displayedModel, isThinkingStreaming,
                isModelStreaming, thinkingIntervalRef, modelIntervalRef, thinkingStepsRef,
                thinkingStepIndexRef, index>>
pageVars == <<isLoading, pageError, disabled, input, uploading, uploadedFiles, showToolMenu,
              inFlight>>

authVars == <<token, storedToken, storedUser, user, loaded, logins, authorization, loggedOut>>
areaVars == <<prevMessageCountRef, prevIsLoadingRef, streamingMessageIds, newlyAppended>>
parseVars == <<thinkingText, answerText, parseResult, eventCount>>
sessionVars == <<authVars, areaVars, parseVars>>

\* the state of the components the send path does not touch
outsideSend == <<convVars, sends, bubbleVars, pageVars, sessionVars>>

vars == <<conversations, now, sendVars, accVars, streamVars, delivered, chatVars, outsideSend>>

\* useState<number | null>(null): the id that stands for null
NoConversation == 0

HistoryConversations ==
    << [id |-> 1, title |-> <<"c", "1">>, updated_at |-> 0,
        messages |-> << [id |-> 1, role |-> "user", content |-> <<"h">>],
                        [id |-> 2, role |-> "assistant", content |-> <<"i">>] >>],
       [id |-> 2, title |-> <<"c", "2">>, updated_at |-> 0, messages |-> <<>>] >>

ConversationIds == {HistoryConversations[i].id : i \in 1..Len(HistoryConversations)}

Init ==
    /\ conversations = HistoryConversations
    /\ now = 0
    /\ pc = "idle"
    /\ conversationId = 0      \* no call of sendMessage yet
    /\ userMessageId = 0
    /\ tempAiMessageId = 0
    /\ accumulatedContent = <<>>
    /\ thinkingProcess = <<>>
    /\ body = <<>>
    /\ pos = 0
    /\ decoderPending = <<>>
    /\ queue = <<>>
    /\ delivered = <<>>
    /\ error = "null"
    /\ requests = 0
    /\ lockAcquired = 0
    /\ lockReleased = 0
    /\ thrown = "null"
    /\ activeConversationId = NoConversation
    /\ calls = {}
    /\ created = 0
    /\ settled = [op |-> "none"]
    /\ sends = <<>>
    /\ message = [role |-> "assistant", content |-> <<>>]
    /\ isNewMessage = FALSE
    /\ mounted = FALSE
    /\ displayedThinking = <<>>
    /\ displayedModel = <<>>
    /\ isThinkingStreaming = FALSE
    /\ isModelStreaming = FALSE
    /\ thinkingIntervalRef = "null"
    /\ modelIntervalRef = "null"
    /\ thinkingStepsRef = <<>>
    /\ thinkingStepIndexRef = 0
    /\ index = 0
    /\ isLoading = FALSE
    /\ pageError = "null"
    /\ disabled = FALSE
    /\ input = <<>>
    /\ uploading = FALSE
    /\ uploadedFiles = 0
    /\ showToolMenu = FALSE
    /\ inFlight = 0
    /\ token = "null"
    /\ storedToken = "null"
    /\ storedUser = "null"
    /\ user = "null"
    /\ loaded = FALSE
    /\ logins = 0
    /\ authorization = "no request"
    /\ loggedOut = FALSE
    /\ prevMessageCountRef = 0
    /\ prevIsLoadingRef = FALSE
    /\ streamingMessageIds = {}
    /\ newlyAppended = 0
    /\ thinkingText = <<>>
    /\ answerText = <<>>
    /\ parseResult = [thinking |-> <<>>, model |-> <<>>]
    /\ eventCount = 0

\* time passes while chatStream awaits (times are counted from the call of
\* sendMessage)
Tick ==
    /\ pc = "streaming"
    /\ now < MaxClock
    /\ now' = now + 1
    /\ UNCHANGED <<conversations, sendVars, accVars, streamVars, delivered, chatVars,
                   outsideSend>>

\* sendMessage up to the call of chatStream and the arrival of the response
SendMessage(cid, content, response) ==
    /\ pc = "idle"
    /\ pc' = "streaming"
    /\ conversationId' = cid
    /\ userMessageId' = DateNow(now)
    /\ tempAiMessageId' = DateNow(now) + 1
    /\ conversations' =
          AddMessage(AddMessage(conversations, cid, UserMessage(DateNow(now), content), now),
                     cid, TempAiMessage(DateNow(now) + 1), now)
    /\ accumulatedContent' = <<>>
    /\ thinkingProcess' = <<>>
    /\ body' = response
    /\ pos' = 0
    /\ decoderPending' = <<>>
    /\ queue' = <<>>
    /\ requests' = requests + 1
    /\ lockAcquired' = lockAcquired + 1
    /\ UNCHANGED <<now, delivered, error, lockReleased, thrown, outsideSend>>

\* one reader.read() returning the next n bytes, decoded, split and parsed
Read(n) ==
    /\ pc = "streaming"
    /\ queue = <<>>
    /\ pos + n <= Len(body)
    /\ LET value == SubStr(body, pos + 1, pos + n)
           dec   == Decode(decoderPending, value)
       IN  /\ decoderPending' = dec.pending
           /\ queue' = EventsOfChunk(dec.text)
    /\ pos' = pos + n
    /\ UNCHANGED <<conversations, now, sendVars, accVars, body, delivered, chatVars,
                   outsideSend>>

\* one call of the onEvent callback of sendMessage
OnEvent ==
    /\ pc = "streaming"
    /\ queue # <<>>
    /\ LET event  == Head(queue)
           branch == EventBranch(event)
       IN  /\ queue' = Tail(queue)
           /\ delivered' = Append(delivered, event)
           /\ \/ /\ branch = "thinking"
                 /\ thinkingProcess' = AppendThinking(thinkingProcess, event.data.message)
                 /\ conversations' =
                       SetContent(conversations, conversationId, tempAiMessageId,
                                  Composite(thinkingProcess', accumulatedContent), now)
                 /\ UNCHANGED accumulatedContent
              \/ /\ branch = "delta"
                 /\ accumulatedContent' = AppendAnswer(accumulatedContent, event.data.content)
                 /\ conversations' =
                       SetContent(conversations, conversationId, tempAiMessageId,
                                  FormattedContent(thinkingProcess, accumulatedContent'), now)
                 /\ UNCHANGED thinkingProcess
              \/ /\ branch = "end"
                 /\ conversations' =
                       ReplaceMessage(conversations, conversationId, tempAiMessageId,
                                      event.data.message_id,
                                      FormattedContent(thinkingProcess, accumulatedContent), now)
                 /\ UNCHANGED accVars
              \/ /\ branch = "none"
                 /\ UNCHANGED <<conversations, accVars>>
    /\ UNCHANGED <<now, sendVars, body, pos, decoderPending, chatVars, outsideSend>>

\* reader.read() reports done: the loop breaks, the lock is released,
\* chatStream resolves and sendMessage returns
ReadDone ==
    /\ pc = "streaming"
    /\ queue = <<>>
    /\ pos = Len(body)
    /\ pc' = "returned"
    /\ lockReleased' = Released(lockReleased, FALSE)
    /\ UNCHANGED <<conversations, now, conversationId, userMessageId, tempAiMessageId,
                   accVars, streamVars, delivered, error, requests, lockAcquired,
                   thrown, outsideSend>>

\* reader.read() rejects: finally releases the lock, chatStream rejects, the
\* catch of sendMessage sets the error, filters the messages and rethrows
ReadFail(err) ==
    /\ pc = "streaming"
    /\ queue = <<>>
    /\ pc' = "failed"
    /\ lockReleased' = Released(lockReleased, TRUE)
    /\ error' = err
    /\ thrown' = Rethrow(err)
    /\ conversations' = RemoveTemporary(conversations, conversationId, DateNow(now), now)
    /\ UNCHANGED <<now, conversationId, userMessageId, tempAiMessageId,
                   accVars, streamVars, delivered, requests, lockAcquired, outsideSend>>

Next ==
    \/ Tick
    \/ \E cid \in ConversationIds, response \in Bodies : SendMessage(cid, <<"q">>, response)
    \/ \E n \in 1..Len(body) : Read(n)
    \/ OnEvent
    \/ ReadDone

Spec == Init /\ [][Next]_vars

(***************************************************************************)
(* The same send when reader.read() may reject.                            *)
(***************************************************************************)
FailLineSeqs ==
    SeqsUpTo({ThinkingLine(<<"C3", "A9">>), DeltaLine(<<"X">>), EndLine(<<"4", "2">>),
              KeepAliveLine}, MaxLines)

FailBodies == {BodyOf(ls) : ls \in FailLineSeqs}

\* err.message of the rejection of reader.read()
ReadErrors == {"network error"}

NextFail ==
    \/ Tick
    \/ \E cid \in ConversationIds, response \in FailBodies :
          SendMessage(cid, <<"q">>, response)
    \/ \E n \in 1..Len(body) : Read(n)
    \/ OnEvent
    \/ ReadDone
    \/ \E err \in ReadErrors : ReadFail(err)

SpecFail == Init /\ [][NextFail]_vars

TypeOK ==
    /\ pc \in {"idle", "streaming", "returned", "failed"}
    /\ now \in 0..MaxClock
    /\ pos \in 0..Len(body)

(***************************************************************************)
(* Vocabulary of the properties.                                           *)
(***************************************************************************)
SendStarted == pc # "idle"

\* the conversation the send writes to
TargetConversation ==
    conversations[CHOOSE i \in 1..Len(conversations) : conversations[i].id = conversationId]

\* the assistant message of the send: the placeholder appended last
AiMessage == TargetConversation.messages[Len(TargetConversation.messages)]

MessagesWithId(id) ==
    {j \in 1..Len(TargetConversation.messages) : TargetConversation.messages[j].id = id}

EndIndexes(events) == {i \in 1..Len(events) : events[i].type = "text_message_end"}

\* a text_message_end event has been handled
Done == EndIndexes(delivered) # {}

FirstEnd(events) == CHOOSE i \in EndIndexes(events) : \A j \in EndIndexes(events) : i <= j

\* the events handled up to, not including, the first text_message_end
BeforeEnd(events) ==
    IF EndIndexes(events) = {} THEN events ELSE SubSeq(events, 1, FirstEnd(events) - 1)

RECURSIVE DeltaText(_)
DeltaText(events) ==
    IF events = <<>> THEN <<>>
    ELSE (IF Head(events).type = "text_message_delta" THEN Head(events).data.content ELSE <<>>)
         \o DeltaText(Tail(events))

RECURSIVE ThinkingText(_)
ThinkingText(events) ==
    IF events = <<>> THEN <<>>
    ELSE (IF Head(events).type = "thinking_process"
          THEN Head(events).data.message \o <<"\n">> ELSE <<>>)
         \o ThinkingText(Tail(events))

NoThinkingEvent(events) == \A i \in 1..Len(events) : events[i].type # "thinking_process"

RecognizedTypes == {"thinking_process", "text_message_delta", "text_message_end"}

\* what one single chunk holding the whole body hands to onEvent
SingleChunkEvents == EventsOfChunk(Decode(<<>>, body).text)

ExampleBody == BodyOf(ExampleLines)

ExampleEvents ==
    << [type |-> "thinking_process", data |-> [message |-> <<"a", "\n">>]],
       [type |-> "thinking_process", data |-> [message |-> <<"b", "\n">>]],
       [type |-> "text_message_delta", data |-> [content |-> <<"X">>]],
       [type |-> "text_message_delta", data |-> [content |-> <<"Y">>]],
       [type |-> "text_message_end", data |-> [message_id |-> 42]] >>

\* the first k events of the example have been handled, and nothing else
ExampleAt(k) == body = ExampleBody /\ delivered = SubSeq(ExampleEvents, 1, k)

(***************************************************************************)
(* C1.  Chunk-boundary independence: when chatStream has returned, the     *)
(* events it handed to onEvent are those it hands over when the whole body *)
(* arrives as one chunk (a "data: " line cut by a chunk boundary is        *)
(* delivered once, when its terminator arrives).                           *)
(***************************************************************************)
C1_ChunkBoundaryIndependence ==
    pc = "returned" => delivered = SingleChunkEvents

(***************************************************************************)
(* C2.  After every handled event the content of the send's assistant      *)
(* message is the composite of the two buffers: the labelled thinking      *)
(* section followed by the labelled answer section when the thinking       *)
(* buffer is non-empty, the answer buffer alone otherwise.                 *)
(***************************************************************************)
C2_ContentIsComposite ==
    SendStarted =>
        AiMessage.content =
            IF thinkingProcess # <<>>
            THEN ThinkingMarker \o <<"\n">> \o thinkingProcess
                 \o ModelMarker \o <<"\n">> \o accumulatedContent
            ELSE accumulatedContent

(***************************************************************************)
(* C3 as stated.  For the example stream the presentation reads, after     *)
(* the 1st..4th event: thinking "a" and no answer; thinking "a\nb";        *)
(* thinking "a\nb" and answer "X"; answer "XY"; and after the 5th event    *)
(* the message carries id 42 and the answer text is "XY".                  *)
(***************************************************************************)
C3_ExampleAsStated ==
    /\ ExampleAt(1) => /\ parseContent(AiMessage.content).thinking = <<"a">>
                       /\ parseContent(AiMessage.content).model = <<>>
    /\ ExampleAt(2) => parseContent(AiMessage.content).thinking = <<"a", "\n", "b">>
    /\ ExampleAt(3) => /\ parseContent(AiMessage.content).thinking = <<"a", "\n", "b">>
                       /\ parseContent(AiMessage.content).model = <<"X">>
    /\ ExampleAt(4) => parseContent(AiMessage.content).model = <<"X", "Y">>
    /\ ExampleAt(5) => /\ AiMessage.id = 42
                       /\ accumulatedContent = <<"X", "Y">>

(***************************************************************************)
(* C3 as amended.  For the example stream the composites are, in order,    *)
(*   [T]\na\n\n[M]\n        [T]\na\n\nb\n\n[M]\n                           *)
(*   [T]\na\n\nb\n\n[M]\nX  [T]\na\n\nb\n\n[M]\nXY                         *)
(* ([T], [M] the two markers): every message keeps its own "\n" and the    *)
(* callback appends one more, and the answer marker is present from the    *)
(* first thinking event on.  After the 5th event the message carries id 42 *)
(* with the 4th composite, and the answer text is "XY".                    *)
(***************************************************************************)
ExampleThinking1 == <<"a", "\n", "\n">>

ExampleThinking2 == <<"a", "\n", "\n", "b", "\n", "\n">>

ExampleComposite(thinking, answer) ==
    <<"[", "si", "kao", "guo", "cheng", "]", "\n">> \o thinking
    \o <<"[", "mo", "xing", "hui", "fu", "]", "\n">> \o answer

C3_ExampleComposites ==
    /\ ExampleAt(1) => /\ AiMessage.content = ExampleComposite(ExampleThinking1, <<>>)
                       /\ AiMessage.id = tempAiMessageId
    /\ ExampleAt(2) => AiMessage.content = ExampleComposite(ExampleThinking2, <<>>)
    /\ ExampleAt(3) => AiMessage.content = ExampleComposite(ExampleThinking2, <<"X">>)
    /\ ExampleAt(4) => /\ AiMessage.content = ExampleComposite(ExampleThinking2, <<"X", "Y">>)
                       /\ AiMessage.id = tempAiMessageId
    /\ ExampleAt(5) => /\ AiMessage.content = ExampleComposite(ExampleThinking2, <<"X", "Y">>)
                       /\ AiMessage.id = 42
                       /\ accumulatedContent = <<"X", "Y">>
                       /\ parseContent(AiMessage.content).model = <<"X", "Y">>

C3_Witness == ExampleAt(5) /\ pc = "returned"

C5_MalformedBetweenValid ==
    (body = BodyOf(MalformedBetweenLines) /\ pc = "returned") =>
        /\ delivered = << [type |-> "text_message_delta", data |-> [content |-> <<"X">>]],
                          [type |-> "text_message_delta", data |-> [content |-> <<"Y">>]] >>
        /\ accumulatedContent = <<"X", "Y">>
        /\ thinkingProcess = <<>>

(***************************************************************************)
(* C6.  Once a text_message_end event has been handled, no step changes    *)
(* the two buffers or the conversations state.                             *)
(***************************************************************************)
C6_DoneIsTerminal ==
    [][Done => UNCHANGED <<accumulatedContent, thinkingProcess, conversations>>]_vars

(***************************************************************************)
(* C7.  When the stream has closed and held no "data: " line, both buffers *)
(* are empty, no text_message_end was handled, and the assistant message   *)
(* still carries the provisional id and an empty content.                  *)
(***************************************************************************)
NoDataLine ==
    LET lines == Split(Decode(<<>>, body).text, "\n")
    IN  \A i \in 1..Len(lines) : ~StartsWith(lines[i], DataPrefix)

C7_EmptyStream ==
    (pc = "returned" /\ NoDataLine) =>
        /\ accumulatedContent = <<>>
        /\ thinkingProcess = <<>>
        /\ ~Done
        /\ AiMessage.id = tempAiMessageId
        /\ AiMessage.content = <<>>

C7_Witness == pc = "returned" /\ NoDataLine /\ delivered = <<>> /\ AiMessage.role = "assistant"

(***************************************************************************)
(* C8.  The provisional id of the assistant message is replaced at most    *)
(* once, and only by the step that handles a text_message_end event: that  *)
(* step gives the message the event's message_id and the final composite;  *)
(* from then on the conversation holds no message with the provisional id  *)
(* and exactly one with the id of the first text_message_end event.        *)
(***************************************************************************)
C8_Committed ==
    Done =>
        /\ MessagesWithId(tempAiMessageId) = {}
        /\ Cardinality(MessagesWithId(delivered[FirstEnd(delivered)].data.message_id)) = 1
        /\ AiMessage.id = delivered[FirstEnd(delivered)].data.message_id

C8_DoneOnce ==
    [][ /\ (SendStarted /\ ~Done) => AiMessage.id = tempAiMessageId
        /\ (SendStarted /\ AiMessage'.id # AiMessage.id) =>
              /\ ~Done
              /\ queue # <<>>
              /\ Head(queue).type = "text_message_end"
              /\ AiMessage'.id = Head(queue).data.message_id
              /\ AiMessage'.content =
                    (IF thinkingProcess # <<>>
                     THEN ThinkingMarker \o <<"\n">> \o thinkingProcess
                          \o ModelMarker \o <<"\n">> \o accumulatedContent
                     ELSE accumulatedContent)
        /\ C8_Committed' ]_vars

C8_Witness ==
    /\ Len(delivered) = 3
    /\ Cardinality(EndIndexes(delivered)) = 2
    /\ delivered[3].data.message_id = 43
    /\ AiMessage.id = 42

(***************************************************************************)
(* C9.  The answer buffer is the concatenation, in arrival order, of the   *)
(* contents of the delta events handled so far, and the thinking buffer    *)
(* that of the thinking messages (each followed by "\n"): a delta event    *)
(* leaves the thinking buffer alone, however the two kinds interleave.     *)
(***************************************************************************)
C9_AnswerBuffer ==
    /\ accumulatedContent = DeltaText(delivered)
    /\ thinkingProcess = ThinkingText(delivered)

C9_Witness ==
    /\ Len(delivered) = 2
    /\ delivered[1].type = "text_message_delta"
    /\ delivered[2].type = "thinking_process"
    /\ accumulatedContent = <<"X">>
    /\ thinkingProcess = <<"E9", "\n">>

(***************************************************************************)
(* C10.  The step that handles an event of an unrecognized type changes    *)
(* neither the buffers nor the conversations state and leaves the send     *)
(* streaming; the events after it are folded into the buffers as usual.    *)
(***************************************************************************)
C10_UnknownIgnored ==
    [][ /\ (pc = "streaming" /\ queue # <<>> /\ Head(queue).type \notin RecognizedTypes) =>
              UNCHANGED <<accumulatedContent, thinkingProcess, conversations, pc>>
        /\ accumulatedContent' = DeltaText(delivered')
        /\ (SendStarted' /\ ~Done') =>
              AiMessage'.content =
                 (IF ThinkingText(delivered') # <<>>
                  THEN ThinkingMarker \o <<"\n">> \o ThinkingText(delivered')
                       \o ModelMarker \o <<"\n">> \o DeltaText(delivered')
                  ELSE DeltaText(delivered')) ]_vars

C10_Witness ==
    /\ Len(delivered) = 2
    /\ delivered[1].type = "run_started"
    /\ delivered[2].type = "text_message_delta"
    /\ AiMessage.content = <<"X">>

(***************************************************************************)
(* C11.  When chatStream has returned, onEvent has been called exactly     *)
(* once for each line of the stream that starts with 'data: ' and has a    *)
(* parseable payload, in stream order, and for no other line.              *)
(***************************************************************************)
StreamLines == Split(Decode(<<>>, body).text, NL)

DataLineIndexes(lines) ==
    {i \in 1..Len(lines) :
        /\ StartsWith(lines[i], DataPrefix)
        /\ JSONParse(Slice(lines[i], 6)) # SyntaxError}

C11_OncePerDataLine ==
    pc = "returned" =>
        LET lines == StreamLines
            idx   == DataLineIndexes(lines)
        IN  /\ Len(delivered) = Cardinality(idx)
            /\ \A k \in 1..Len(delivered) :
                  \E i \in idx : /\ Cardinality({j \in idx : j <= i}) = k
                                 /\ delivered[k] = JSONParse(Slice(lines[i], 6))

(***************************************************************************)
(* C12.  The reader is acquired once per chat request; its lock is not     *)
(* released while the loop runs and has been released exactly once when    *)
(* the loop has exited, by the end of the stream or by a rejected read.    *)
(***************************************************************************)
C12_ReleasedOnce ==
    /\ lockAcquired = requests
    /\ pc = "streaming" => lockReleased = 0
    /\ pc \in {"returned", "failed"} => lockAcquired = 1 /\ lockReleased = 1

C12_Witness == pc = "failed" /\ delivered # <<>> /\ lockReleased = 1

(***************************************************************************)
(* C13.  The step in which a read rejects hands no event over and takes    *)
(* none back: every event parsed from the earlier chunks has been handled  *)
(* and folded into the buffers once, the buffers stay as they are, the     *)
(* error is the hook's error and is rethrown to the caller; the chat       *)
(* request was issued once and no message of the conversation carries a    *)
(* final id unless a text_message_end had been handled before.             *)
(***************************************************************************)
HistoryMessages(cid) ==
    HistoryConversations[CHOOSE i \in 1..Len(HistoryConversations) :
                            HistoryConversations[i].id = cid].messages

NoFinalId ==
    \A j \in 1..Len(TargetConversation.messages) :
        LET m == TargetConversation.messages[j]
        IN  \/ m.id \in {userMessageId, tempAiMessageId}
            \/ \E h \in 1..Len(HistoryMessages(conversationId)) :
                  m = HistoryMessages(conversationId)[h]

C13_FailStep ==
    (pc = "streaming" /\ pc' = "failed") =>
        /\ queue = <<>>
        /\ UNCHANGED <<delivered, accVars, requests>>
        /\ accumulatedContent = DeltaText(delivered)
        /\ thinkingProcess = ThinkingText(delivered)
        /\ thrown' \in ReadErrors
        /\ error' = thrown'

C13_ReadFailure ==
    /\ [][C13_FailStep]_vars
    /\ [](pc = "failed" => requests = 1 /\ (~Done => NoFinalId))

C13_Witness ==
    /\ pc = "failed"
    /\ ~Done
    /\ Len(delivered) = 2
    /\ thrown = "network error"

(***************************************************************************)
(* C14.  After a failed send the target conversation holds neither the     *)
(* temporary user message nor the temporary assistant message of the       *)
(* send: its messages are those it had before, and the hook's error is     *)
(* set.                                                                    *)
(***************************************************************************)
C14_TemporaryRemoved ==
    pc = "failed" =>
        /\ error # "null"
        /\ MessagesWithId(userMessageId) = {}
        /\ MessagesWithId(tempAiMessageId) = {}
        /\ TargetConversation.messages = HistoryMessages(conversationId)

(***************************************************************************)
(* ApiClient and useAuth: the token in memory, the items 'token' and       *)
(* 'user' of localStorage, and authState.user.  A stored user is the JSON  *)
(* text of a user, or a text JSON.parse rejects.                           *)
(***************************************************************************)
Tokens == {"t1", "t2"}

Users == {"u1"}

\* JSON.stringify(data.user)
Stringify(u) == IF u = "u1" THEN "{id:1}" ELSE "undefined"

\* JSON.parse(storedUser): the user, or "SyntaxError" when it throws
Parse(text) == IF text = "{id:1}" THEN "u1" ELSE "SyntaxError"

\* what localStorage may hold when the page is opened
StoredStates ==
    { [token |-> "null", user |-> "null"],
      [token |-> "t1", user |-> Stringify("u1")],
      [token |-> "t1", user |-> Stringify("undefined")] }

\* mutant: the Authorization header is sent whatever the token
GetHeadersAlways(tok) == "Bearer"

\* getHeaders: Authorization only with a token
GetHeaders(tok) == IF tok # "null" THEN "Bearer" ELSE "none"

authFrame == <<conversations, now, sendVars, accVars, streamVars, delivered, error, requests,
               lockAcquired, lockReleased, activeConversationId, calls, created, sends,
               bubbleVars, pageVars, areaVars, parseVars>>

\* `API Error: ${response.status} - ${errorText}` thrown by handleResponse
LoginErrors == {"API Error: 401"}

\* new ApiClient() at module load, then the effect of useAuth, on a storage
\* holding tok and usr
Startup(tok, usr) ==
    /\ token' = tok
    /\ IF usr # "null" /\ Parse(usr) = "SyntaxError"
       THEN /\ storedUser' = "null"
            /\ storedToken' = "null"
            /\ user' = "null"
       ELSE /\ storedUser' = usr
            /\ storedToken' = tok
            /\ user' = IF usr = "null" THEN "null" ELSE Parse(usr)

\* the page is opened on the storage an earlier session left
PageLoad(st) ==
    /\ ~loaded
    /\ loaded' = TRUE
    /\ Startup(st.token, st.user)
    /\ UNCHANGED <<authFrame, thrown, settled, logins, authorization, loggedOut>>

\* window.location.reload(): pending calls are dropped
Reload ==
    /\ loaded
    /\ Startup(storedToken, storedUser)
    /\ logins' = 0
    /\ settled' = [op |-> "none"]
    /\ UNCHANGED <<authFrame, thrown, loaded, authorization, loggedOut>>

\* useAuth.login up to the await of apiClient.login
LoginCall ==
    /\ loaded
    /\ logins < 1
    /\ logins' = logins + 1
    /\ UNCHANGED <<authFrame, thrown, settled, token, storedToken, storedUser, user, loaded,
                   authorization, loggedOut>>

\* apiClient.login after its fetch and the rest of useAuth.login
LoginDone(ok, tok) ==
    /\ logins > 0
    /\ logins' = logins - 1
    /\ settled' = [op |-> "login", ok |-> ok]
    /\ IF ok
       THEN /\ token' = tok
            /\ storedToken' = tok
            /\ storedUser' = Stringify("u1")
            /\ user' = "u1"
            /\ authorization' = "no request"
            /\ loggedOut' = FALSE
            /\ UNCHANGED thrown
       ELSE /\ \E err \in LoginErrors : thrown' = Rethrow(err)
            /\ UNCHANGED <<token, storedToken, storedUser, user, authorization, loggedOut>>
    /\ UNCHANGED <<authFrame, loaded>>

\* useAuth.register: the user is set, no token is issued
Register(ok) ==
    /\ loaded
    /\ settled' = [op |-> "register", ok |-> ok]
    /\ IF ok
       THEN user' = "u1" /\ UNCHANGED thrown
       ELSE (\E err \in LoginErrors : thrown' = Rethrow(err)) /\ UNCHANGED user
    /\ UNCHANGED <<authFrame, token, storedToken, storedUser, loaded, logins, authorization,
                   loggedOut>>

\* useAuth.logout: apiClient.logout() and setAuthState
Logout ==
    /\ loaded
    /\ token' = "null"
    /\ storedToken' = "null"
    /\ storedUser' = "null"
    /\ user' = "null"
    /\ authorization' = "no request"
    /\ loggedOut' = TRUE
    /\ UNCHANGED <<authFrame, thrown, settled, loaded, logins>>

\* any request built with getHeaders()
Request ==
    /\ loaded
    /\ authorization' = GetHeaders(token)
    /\ UNCHANGED <<authFrame, thrown, settled, token, storedToken, storedUser, user, loaded,
                   logins, loggedOut>>

NextAuth ==
    \/ \E st \in StoredStates : PageLoad(st)
    \/ Reload
    \/ LoginCall
    \/ \E ok \in BOOLEAN, tok \in Tokens : LoginDone(ok, tok)
    \/ \E ok \in BOOLEAN : Register(ok)
    \/ Logout
    \/ Request

SpecAuth == Init /\ [][NextAuth]_vars

(***************************************************************************)
(* ChatPage, ChatArea and MessageInput: who may start a send.  The stream  *)
(* of a send is abstracted to its settling; a submit event may arrive at   *)
(* any time, whatever the state of the controls.  One upload at a time.    *)
(***************************************************************************)
InputTexts == {<<>>, <<" ">>, <<"q">>, <<" ", "q">>}

\* mutant: ChatArea does not pass isLoading on
NeverDisabled(loading) == FALSE

\* <MessageInput disabled={isLoading} />
Disabled(loading) == loading

\* the condition of handleSubmit
CanSubmit(text, files, isDisabled, isUploading) ==
    (Trim(text) # <<>> \/ files > 0) /\ ~isDisabled /\ ~isUploading

\* onSelectConversation={setActiveConversationId} on a listed conversation
SelectConversation(id) ==
    /\ \E i \in 1..Len(conversations) : conversations[i].id = id
    /\ activeConversationId' = id
    /\ UNCHANGED <<conversations, now, sendVars, sessionVars, accVars, streamVars, delivered, chatVars,
                   calls, created, settled, sends, bubbleVars, pageVars>>

\* MessageInput is rendered inside ChatArea, which needs an active conversation
\* and ChatPage renders LoginPage instead while there is no user
InputMounted == activeConversationId # NoConversation /\ user # "null"

HandleInputChange(text) ==
    /\ InputMounted
    /\ ~(disabled \/ uploading)
    /\ input' = text
    /\ UNCHANGED <<conversations, now, sendVars, sessionVars, accVars, streamVars, delivered, chatVars,
                   convVars, sends, bubbleVars, isLoading, pageError, disabled, uploading,
                   uploadedFiles, showToolMenu, inFlight>>

\* the tool button: setShowToolMenu(!showToolMenu)
ToggleToolMenu ==
    /\ InputMounted
    /\ ~(disabled \/ uploading)
    /\ showToolMenu' = ~showToolMenu
    /\ UNCHANGED <<conversations, now, sendVars, sessionVars, accVars, streamVars, delivered, chatVars,
                   convVars, sends, bubbleVars, isLoading, pageError, disabled, input,
                   uploading, uploadedFiles, inFlight>>

\* the file input: handleFileSelect, uploadFile up to its await
UploadStart ==
    /\ InputMounted
    /\ ~(disabled \/ uploading)
    /\ uploadedFiles < MaxFiles
    /\ uploading' = TRUE
    /\ UNCHANGED <<conversations, now, sendVars, sessionVars, accVars, streamVars, delivered, chatVars,
                   convVars, sends, bubbleVars, isLoading, pageError, disabled, input,
                   uploadedFiles, showToolMenu, inFlight>>

\* uploadFile after its await, and handleFileSelect after it
UploadDone(ok) ==
    /\ uploading
    /\ uploading' = FALSE
    /\ uploadedFiles' = IF ok THEN uploadedFiles + 1 ELSE uploadedFiles
    /\ showToolMenu' = IF ok THEN FALSE ELSE showToolMenu
    /\ UNCHANGED <<conversations, now, sendVars, sessionVars, accVars, streamVars, delivered, chatVars,
                   convVars, sends, bubbleVars, isLoading, pageError, disabled, input,
                   inFlight>>

\* the remove button of an uploaded file: removeFile
RemoveFile ==
    /\ InputMounted
    /\ uploadedFiles > 0
    /\ uploadedFiles' = uploadedFiles - 1
    /\ UNCHANGED <<conversations, now, sendVars, sessionVars, accVars, streamVars, delivered, chatVars,
                   convVars, sends, bubbleVars, isLoading, pageError, disabled, input,
                   uploading, showToolMenu, inFlight>>

\* if (!activeConversationId || !user) return;
StartsSend(active, u) == active # NoConversation /\ u # "null"

\* handleSubmit, and handleSendMessage up to its await, with the render
\* that follows the event
HandleSubmit ==
    /\ InputMounted
    /\ IF CanSubmit(input, uploadedFiles, disabled, uploading)
       THEN /\ IF StartsSend(activeConversationId, user)
               THEN /\ isLoading' = TRUE
                    /\ pageError' = "null"
                    /\ inFlight' = inFlight + 1
               ELSE UNCHANGED <<isLoading, pageError, inFlight>>
            /\ input' = <<>>
            /\ uploadedFiles' = 0
            /\ showToolMenu' = FALSE
            /\ disabled' = Disabled(isLoading')
       ELSE UNCHANGED <<isLoading, pageError, inFlight, input, uploadedFiles, showToolMenu,
                        disabled>>
    /\ UNCHANGED <<conversations, now, sendVars, sessionVars, accVars, streamVars, delivered,
                   chatVars, convVars, sends, bubbleVars, uploading>>

\* mutant: isLoading is cleared at the end of the try block only
LoadingAfterTry(ok) == ~ok

\* finally { setIsLoading(false) }
LoadingAfterSend(ok) == FALSE

\* handleSendMessage after its await: sendMessage resolved or rejected
SendSettles(ok) ==
    /\ inFlight > 0
    /\ inFlight' = inFlight - 1
    /\ pageError' = IF ok THEN pageError ELSE "send failed"
    /\ isLoading' = LoadingAfterSend(ok)
    /\ disabled' = Disabled(isLoading')
    /\ settled' = [op |-> "send", ok |-> ok]
    /\ UNCHANGED <<conversations, now, sendVars, sessionVars, accVars, streamVars, delivered,
                   chatVars, activeConversationId, calls, created, sends, bubbleVars, input,
                   uploading, uploadedFiles, showToolMenu>>

NextPage ==
    \/ \E id \in ConversationIds : SelectConversation(id)
    \/ \E text \in InputTexts : HandleInputChange(text)
    \/ ToggleToolMenu
    \/ UploadStart
    \/ \E ok \in BOOLEAN : UploadDone(ok)
    \/ RemoveFile
    \/ HandleSubmit
    \/ \E ok \in BOOLEAN : SendSettles(ok)
    \/ \E st \in StoredStates : PageLoad(st)
    \/ Logout

SpecPage == Init /\ [][NextPage]_vars

\* an awaited sendMessage resolves or rejects: its stream closes or fails
SpecPageFair == SpecPage /\ WF_vars(\E ok \in BOOLEAN : SendSettles(ok))

(***************************************************************************)
(* C15.  At most one send is in flight at any time, and while one is, the  *)
(* page is loading and MessageInput is disabled, so that a submit starts   *)
(* no second one.                                                          *)
(***************************************************************************)
C15_OneStream ==
    /\ inFlight <= 1
    /\ inFlight = 1 => isLoading /\ disabled

C15_Witness == inFlight = 1 /\ disabled /\ pageError = "null" /\ activeConversationId = 2

(***************************************************************************)
(* Two sendMessage calls in flight at once.  Each call has its own locals  *)
(* (ids, buffers) and its own stream, taken here as the events its         *)
(* chatStream hands over; both write to the one conversations state.       *)
(***************************************************************************)
\* the streams of the first and of the second call: their answers and
\* final ids differ
StreamsOf(k) ==
    LET x   == IF k = 1 THEN <<"X">> ELSE <<"Y">>
        end == IF k = 1 THEN <<"4", "2">> ELSE <<"4", "3">>
    IN  { EventsOfLines(<<EndLine(end)>>),
          EventsOfLines(<<DeltaLine(x), EndLine(end)>>),
          EventsOfLines(<<ThinkingLine(<<"a">>), DeltaLine(x), EndLine(end)>>) }

\* Date.now() advancing while the calls are in flight
TickTwo ==
    /\ now < MaxClock
    /\ now' = now + 1
    /\ UNCHANGED <<conversations, sendVars, sessionVars, accVars, streamVars, delivered, chatVars,
                   convVars, sends, bubbleVars, pageVars>>

\* sendMessage up to the call of chatStream
SendMessageTwo(cid, content, events) ==
    /\ Len(sends) < 2
    /\ sends' = Append(sends,
                       [conversationId |-> cid,
                        userMessageId |-> DateNow(now),
                        tempAiMessageId |-> DateNow(now) + 1,
                        accumulatedContent |-> <<>>,
                        thinkingProcess |-> <<>>,
                        queue |-> events,
                        delivered |-> <<>>])
    /\ conversations' =
          AddMessage(AddMessage(conversations, cid, UserMessage(DateNow(now), content), now),
                     cid, TempAiMessage(DateNow(now) + 1), now)
    /\ UNCHANGED <<now, sendVars, sessionVars, accVars, streamVars, delivered, chatVars, convVars,
                   bubbleVars, pageVars>>

\* one call of the onEvent callback of the k-th sendMessage
OnEventTwo(k) ==
    /\ k \in 1..Len(sends)
    /\ sends[k].queue # <<>>
    /\ LET self   == sends[k]
           event  == Head(self.queue)
           branch == EventBranch(event)
           thinking == IF branch = "thinking"
                       THEN AppendThinking(self.thinkingProcess, event.data.message)
                       ELSE self.thinkingProcess
           answer == IF branch = "delta"
                     THEN AppendAnswer(self.accumulatedContent, event.data.content)
                     ELSE self.accumulatedContent
       IN  /\ sends' = [sends EXCEPT ![k] =
                           [self EXCEPT !.queue = Tail(self.queue),
                                        !.delivered = Append(self.delivered, event),
                                        !.thinkingProcess = thinking,
                                        !.accumulatedContent = answer]]
           /\ conversations' =
                 IF branch = "thinking"
                 THEN SetContent(conversations, self.conversationId, self.tempAiMessageId,
                                 Composite(thinking, answer), now)
                 ELSE IF branch = "delta"
                 THEN SetContent(conversations, self.conversationId, self.tempAiMessageId,
                                 FormattedContent(thinking, answer), now)
                 ELSE IF branch = "end"
                 THEN ReplaceMessage(conversations, self.conversationId,
                                     self.tempAiMessageId, event.data.message_id,
                                     FormattedContent(thinking, answer), now)
                 ELSE conversations
    /\ UNCHANGED <<now, sendVars, sessionVars, accVars, streamVars, delivered, chatVars, convVars,
                   bubbleVars, pageVars>>

NextTwo ==
    \/ TickTwo
    \/ \E cid \in ConversationIds :
          \E events \in StreamsOf(Len(sends) + 1) : SendMessageTwo(cid, <<"q">>, events)
    \/ \E k \in {1, 2} : OnEventTwo(k)

SpecTwo == Init /\ [][NextTwo]_vars

(***************************************************************************)
(* C16.  When two concurrent sends have both handled all their events,     *)
(* the conversation of each holds exactly one message with the final id    *)
(* of that send, an assistant message whose content is the composite of    *)
(* that send's own thinking and answer events.                             *)
(***************************************************************************)
MessagesOf(cid) ==
    conversations[CHOOSE i \in 1..Len(conversations) : conversations[i].id = cid].messages

\* the assistant message a send alone ends with
OwnMessage(self) ==
    LET own == BeforeEnd(self.delivered)
    IN  [id |-> self.delivered[FirstEnd(self.delivered)].data.message_id,
         role |-> "assistant",
         content |-> FormattedContent(ThinkingText(own), DeltaText(own))]

C16_Independent ==
    (Len(sends) = 2 /\ \A k \in {1, 2} : sends[k].queue = <<>>) =>
        \A k \in {1, 2} :
            LET msgs == MessagesOf(sends[k].conversationId)
                mine == {j \in 1..Len(msgs) : msgs[j].id = OwnMessage(sends[k]).id}
            IN  /\ Cardinality(mine) = 1
                /\ \A j \in mine : msgs[j] = OwnMessage(sends[k])

(***************************************************************************)
(* MessageBubble: the paced reveal of an assistant message.  The message   *)
(* prop is given at mount and does not change afterwards; the component    *)
(* stays mounted.  A ref holds "interval" while its setInterval is live.   *)
(***************************************************************************)
RECURSIVE Join(_)
Join(steps) ==
    IF steps = <<>> THEN <<>>
    ELSE IF Len(steps) = 1 THEN steps[1]
    ELSE steps[1] \o <<NL>> \o Join(Tail(steps))

\* thinking.split('\n').filter(step => step.trim() !== '')
ThinkingSteps(thinking) == SelectSeq(Split(thinking, NL), LAMBDA step : Trim(step) # <<>>)

\* mutant: the whole answer at the first tick
ModelShownAtOnce(content, i) == content

\* content.substring(0, index)
ModelShown(content, i) == SubSeq(content, 1, i)

\* thinking buffers as sendMessage builds them: none, one message, two
\* messages, two messages that end with a newline of their own
ThinkingTexts ==
    { <<>>,
      AppendThinking(<<>>, <<"a">>),
      AppendThinking(AppendThinking(<<>>, <<"a">>), <<"b">>),
      AppendThinking(AppendThinking(<<>>, <<"a", NL>>), <<"b", NL>>) }

AnswerTexts == SeqsUpTo({"x", "y"}, MaxAnswer)

BubbleContents ==
    {FormattedContent(thinking, answer) : thinking \in ThinkingTexts, answer \in AnswerTexts}

\* the refs and state after typeModel(content) has run
TypeModel ==
    /\ thinkingIntervalRef' = "null"
    /\ index' = 0
    /\ displayedModel' = <<>>
    /\ isModelStreaming' = TRUE
    /\ modelIntervalRef' = "interval"

\* the first render of the bubble and its effect
Mount(content, isNew) ==
    /\ ~mounted
    /\ mounted' = TRUE
    /\ message' = [role |-> "assistant", content |-> content]
    /\ isNewMessage' = isNew
    /\ LET parsed == parseContent(content)
       IN  IF isNew
           THEN IF parsed.thinking # <<>>
                THEN /\ modelIntervalRef' = "null"
                     /\ thinkingStepsRef' = ThinkingSteps(parsed.thinking)
                     /\ thinkingStepIndexRef' = 0
                     /\ displayedThinking' = <<>>
                     /\ isThinkingStreaming' = TRUE
                     /\ thinkingIntervalRef' = "interval"
                     /\ UNCHANGED <<displayedModel, isModelStreaming, index>>
                ELSE /\ TypeModel
                     /\ UNCHANGED <<displayedThinking, isThinkingStreaming,
                                    thinkingStepsRef, thinkingStepIndexRef>>
           ELSE /\ displayedThinking' = parsed.thinking
                /\ displayedModel' = parsed.model
                /\ isThinkingStreaming' = FALSE
                /\ isModelStreaming' = FALSE
                /\ UNCHANGED <<thinkingIntervalRef, modelIntervalRef, thinkingStepsRef,
                               thinkingStepIndexRef, index>>
    /\ UNCHANGED <<conversations, now, sendVars, sessionVars, accVars, streamVars, delivered, chatVars,
                   convVars, sends, pageVars>>

\* one run of the interval callback of typeThinking
ThinkingTick ==
    /\ thinkingIntervalRef = "interval"
    /\ IF thinkingStepIndexRef < Len(thinkingStepsRef)
       THEN /\ displayedThinking' = Join(SubSeq(thinkingStepsRef, 1, thinkingStepIndexRef + 1))
            /\ thinkingStepIndexRef' = thinkingStepIndexRef + 1
            /\ UNCHANGED <<displayedModel, isThinkingStreaming, isModelStreaming,
                           thinkingIntervalRef, modelIntervalRef, index>>
       ELSE /\ isThinkingStreaming' = FALSE
            /\ TypeModel
            /\ UNCHANGED <<displayedThinking, thinkingStepIndexRef>>
    /\ UNCHANGED <<conversations, now, sendVars, sessionVars, accVars, streamVars, delivered, chatVars,
                   convVars, sends, pageVars, message, isNewMessage, mounted,
                   thinkingStepsRef>>

\* one run of the interval callback of typeModel
ModelTick ==
    /\ modelIntervalRef = "interval"
    /\ LET content == parseContent(message.content).model
       IN  IF index <= Len(content)
           THEN /\ displayedModel' = ModelShown(content, index)
                /\ index' = index + 1
                /\ UNCHANGED <<isModelStreaming, modelIntervalRef>>
           ELSE /\ modelIntervalRef' = "null"
                /\ isModelStreaming' = FALSE
                /\ UNCHANGED <<displayedModel, index>>
    /\ UNCHANGED <<conversations, now, sendVars, sessionVars, accVars, streamVars, delivered, chatVars,
                   convVars, sends, pageVars, message, isNewMessage, mounted,
                   displayedThinking, isThinkingStreaming, thinkingIntervalRef,
                   thinkingStepsRef, thinkingStepIndexRef>>

NextBubble ==
    \/ \E content \in BubbleContents, isNew \in BOOLEAN : Mount(content, isNew)
    \/ ThinkingTick
    \/ ModelTick

\* a live interval keeps firing
SpecBubble ==
    Init /\ [][NextBubble]_vars /\ WF_vars(ThinkingTick) /\ WF_vars(ModelTick)

Parsed == parseContent(message.content)

\* the thinking steps of the message: the non-blank lines of its thinking text
Steps == ThinkingSteps(Parsed.thinking)

Revealing == mounted /\ isNewMessage

TimersCleared == thinkingIntervalRef = "null" /\ modelIntervalRef = "null"

NotStreaming == ~isThinkingStreaming /\ ~isModelStreaming

C17_Pace ==
    (mounted /\ isNewMessage) =>
        /\ displayedThinking' # displayedThinking =>
              /\ displayedThinking = Join(SubSeq(Steps, 1, thinkingStepIndexRef))
              /\ displayedThinking' = Join(SubSeq(Steps, 1, thinkingStepIndexRef + 1))
              /\ thinkingStepIndexRef < Len(Steps)
              /\ displayedModel' = <<>>
        /\ displayedModel' # displayedModel =>
              /\ displayedThinking = Join(Steps)
              /\ Len(displayedModel') = Len(displayedModel) + 1
              /\ displayedModel' = SubSeq(Parsed.model, 1, Len(displayedModel'))

NewId(n) == Len(HistoryConversations) + n

\* err.message of a rejected API request
ApiErrors == {"request failed"}

\* mutant: the new conversation goes to the end of the list
AppendConversation(prev, conv) == Append(prev, conv)

\* prev => [convWithMessages, ...prev]
PrependConversation(prev, conv) == <<conv>> \o prev

\* prev => prev.filter(c => c.id !== conversationId)
WithoutConversation(prev, id) == SelectSeq(prev, LAMBDA c : c.id # id)

PendingCreates == {c \in calls : c.op = "create"}

convFrame == <<now, sendVars, sessionVars, accVars, streamVars, delivered, requests, lockAcquired,
               lockReleased, sends, bubbleVars, pageVars>>

\* handleNewConversation: createConversation up to its await
CreateConversationCall ==
    /\ Cardinality(calls) < 2
    /\ created + Cardinality(PendingCreates) < MaxCreates
    /\ calls' = calls \cup {[op |-> "create", id |-> NoConversation,
                             conversations |-> conversations,
                             activeConversationId |-> activeConversationId]}
    /\ UNCHANGED <<conversations, activeConversationId, created, settled, error, thrown,
                   convFrame>>

\* createConversation after its await, and handleNewConversation after it
CreateConversationDone(c, ok) ==
    /\ c \in calls
    /\ c.op = "create"
    /\ calls' = calls \ {c}
    /\ IF ok
       THEN LET newConversation == [id |-> NewId(created + 1),
                                    title |-> <<"xin", "dui", "hua">>,
                                    updated_at |-> now, messages |-> <<>>]
            IN  /\ conversations' = PrependConversation(conversations, newConversation)
                /\ activeConversationId' = newConversation.id
                /\ created' = created + 1
                /\ settled' = [op |-> "create", id |-> newConversation.id, ok |-> TRUE]
                /\ UNCHANGED <<error, thrown>>
       ELSE /\ \E err \in ApiErrors : error' = err /\ thrown' = Rethrow(err)
            /\ settled' = [op |-> "create", id |-> NoConversation, ok |-> FALSE]
            /\ UNCHANGED <<conversations, activeConversationId, created>>
    /\ UNCHANGED convFrame

\* handleDeleteConversation: deleteConversation up to its await
DeleteConversationCall(id) ==
    /\ Cardinality(calls) < 2
    /\ \E i \in 1..Len(conversations) : conversations[i].id = id
    /\ calls' = calls \cup {[op |-> "delete", id |-> id,
                             conversations |-> conversations,
                             activeConversationId |-> activeConversationId]}
    /\ UNCHANGED <<conversations, activeConversationId, created, settled, error, thrown,
                   convFrame>>

\* deleteConversation after its await
DeleteConversationDone(c, ok) ==
    /\ c \in calls
    /\ c.op = "delete"
    /\ calls' = calls \ {c}
    /\ settled' = [op |-> "delete", id |-> c.id, ok |-> ok]
    /\ IF ok
       THEN /\ conversations' = WithoutConversation(conversations, c.id)
            /\ activeConversationId' =
                  IF c.activeConversationId = c.id
                  THEN LET remaining == WithoutConversation(c.conversations, c.id)
                       IN  IF Len(remaining) > 0 THEN remaining[1].id ELSE NoConversation
                  ELSE activeConversationId
            /\ UNCHANGED <<error, thrown>>
       ELSE /\ \E err \in ApiErrors : error' = err /\ thrown' = Rethrow(err)
            /\ UNCHANGED <<conversations, activeConversationId>>
    /\ UNCHANGED <<created, convFrame>>

AllIds == ConversationIds \cup {NewId(n) : n \in 1..MaxCreates}

NextConv ==
    \/ \E id \in AllIds : SelectConversation(id)
    \/ CreateConversationCall
    \/ \E c \in calls, ok \in BOOLEAN : CreateConversationDone(c, ok)
    \/ \E id \in AllIds : DeleteConversationCall(id)
    \/ \E c \in calls, ok \in BOOLEAN : DeleteConversationDone(c, ok)

SpecConv == Init /\ [][NextConv]_vars

ListedIds == {conversations[i].id : i \in 1..Len(conversations)}

(***************************************************************************)
(* C18.  When no create or delete call is pending, activeConversationId    *)
(* is null or the id of a conversation of the list.                        *)
(***************************************************************************)
C18_ActiveIsListed ==
    calls = {} => activeConversationId \in ListedIds \cup {NoConversation}

(***************************************************************************)
(* C19.  The step that completes deleteConversation(id): on success the    *)
(* list loses exactly the conversation id, and activeConversationId        *)
(* becomes the first remaining conversation (null if none) when it was id  *)
(* and is unchanged otherwise; on failure the list and                     *)
(* activeConversationId are unchanged, error is set and rethrown.          *)
(***************************************************************************)
C19_DeleteStep ==
    \A c \in calls :
        (c.op = "delete" /\ calls' = calls \ {c}) =>
            IF settled'.ok
            THEN /\ conversations' = WithoutConversation(conversations, c.id)
                 /\ activeConversationId' =
                       IF activeConversationId = c.id
                       THEN IF Len(conversations') > 0 THEN conversations'[1].id
                            ELSE NoConversation
                       ELSE activeConversationId
            ELSE /\ UNCHANGED <<conversations, activeConversationId>>
                 /\ error' \in ApiErrors
                 /\ thrown' = error'

C19_DeleteConversation == [][C19_DeleteStep]_vars

(***************************************************************************)
(* C20.  The step that completes createConversation: on success the list   *)
(* is the new conversation, with no messages, followed by the list as it   *)
(* was, and the new conversation is active; on failure the list and        *)
(* activeConversationId are unchanged, error is set and rethrown.          *)
(***************************************************************************)
C20_CreateStep ==
    \A c \in calls :
        (c.op = "create" /\ calls' = calls \ {c}) =>
            IF settled'.ok
            THEN /\ Len(conversations') = Len(conversations) + 1
                 /\ Tail(conversations') = conversations
                 /\ conversations'[1].messages = <<>>
                 /\ conversations'[1].id \notin ListedIds
                 /\ activeConversationId' = conversations'[1].id
            ELSE /\ UNCHANGED <<conversations, activeConversationId>>
                 /\ error' \in ApiErrors
                 /\ thrown' = error'

C20_CreateConversation == [][C20_CreateStep]_vars

C20_Witness ==
    /\ settled = [op |-> "create", id |-> NewId(1), ok |-> TRUE]
    /\ Len(conversations) = 3
    /\ conversations[1].id = NewId(1)
    /\ conversations[1].messages = <<>>
    /\ conversations[2].messages # <<>>
    /\ activeConversationId = NewId(1)

(***************************************************************************)
(* useConversations.updateConversationTitle, next to sends that stream     *)
(* into the conversations.                                                 *)
(***************************************************************************)
\* mutant: the response replaces the conversation, whose messages are lost
ReplacedBy(conv, updatedConversation) ==
    [f \in DOMAIN conv \cup DOMAIN updatedConversation |->
        IF f \in DOMAIN updatedConversation THEN updatedConversation[f]
        ELSE IF f = "messages" THEN <<>> ELSE conv[f]]

\* { ...conv, ...updatedConversation }
Merge(conv, updatedConversation) ==
    [f \in DOMAIN conv \cup DOMAIN updatedConversation |->
        IF f \in DOMAIN updatedConversation THEN updatedConversation[f] ELSE conv[f]]

\* prev.map(conv => conv.id === conversationId ? {...conv, ...updated} : conv)
UpdateTitle(prev, cid, updatedConversation) ==
    [i \in 1..Len(prev) |->
        IF prev[i].id = cid THEN Merge(prev[i], updatedConversation) ELSE prev[i]]

titleFrame == <<now, sendVars, sessionVars, accVars, streamVars, delivered, requests, lockAcquired,
                lockReleased, sends, bubbleVars, pageVars, activeConversationId, created>>

\* Sidebar.handleEditSave: updateConversationTitle up to its await
UpdateTitleCall(id, editTitle) ==
    /\ Trim(editTitle) # <<>>
    /\ Cardinality(calls) < 2
    /\ \E i \in 1..Len(conversations) : conversations[i].id = id
    /\ calls' = calls \cup {[op |-> "update", id |-> id, title |-> Trim(editTitle)]}
    /\ UNCHANGED <<conversations, settled, error, thrown, titleFrame>>

\* updateConversationTitle after its await
UpdateTitleDone(c, ok) ==
    /\ c \in calls
    /\ c.op = "update"
    /\ calls' = calls \ {c}
    /\ settled' = [op |-> "update", id |-> c.id, ok |-> ok]
    /\ IF ok
       THEN /\ conversations' =
                  UpdateTitle(conversations, c.id,
                              [id |-> c.id, title |-> c.title, updated_at |-> now])
            /\ UNCHANGED <<error, thrown>>
       ELSE /\ \E err \in ApiErrors : error' = err /\ thrown' = Rethrow(err)
            /\ UNCHANGED conversations
    /\ UNCHANGED titleFrame

EditTitles == {<<" ", "t">>}

NextTitle ==
    \/ TickTwo
    \/ \E cid \in ConversationIds, events \in StreamsOf(1) :
          sends = <<>> /\ SendMessageTwo(cid, <<"q">>, events)
    \/ OnEventTwo(1)
    \/ \E id \in ConversationIds, editTitle \in EditTitles : UpdateTitleCall(id, editTitle)
    \/ \E c \in calls, ok \in BOOLEAN : UpdateTitleDone(c, ok)

SpecTitle == Init /\ [][NextTitle]_vars

(***************************************************************************)
(* C21.  The step that completes updateConversationTitle(id, title): on    *)
(* success the list keeps its length and order, every conversation keeps   *)
(* its id and its messages, the conversations other than id are unchanged  *)
(* and activeConversationId is unchanged; on failure the list and          *)
(* activeConversationId are unchanged and error is set.                    *)
(***************************************************************************)
C21_TitleStep ==
    \A c \in calls :
        (c.op = "update" /\ calls' = calls \ {c}) =>
            /\ activeConversationId' = activeConversationId
            /\ IF settled'.ok
               THEN /\ Len(conversations') = Len(conversations)
                    /\ \A i \in 1..Len(conversations) :
                          /\ conversations'[i].id = conversations[i].id
                          /\ conversations'[i].messages = conversations[i].messages
                          /\ conversations[i].id # c.id =>
                                conversations'[i] = conversations[i]
                          /\ conversations[i].id = c.id =>
                                conversations'[i].title = c.title
                    /\ UNCHANGED error
               ELSE /\ UNCHANGED conversations
                    /\ error' \in ApiErrors

C21_UpdateTitle == [][C21_TitleStep]_vars

\* a title update has completed while a send streams into the conversation
C21_Witness ==
    /\ settled = [op |-> "update", id |-> 1, ok |-> TRUE]
    /\ conversations[1].title = <<"t">>
    /\ Len(conversations[1].messages) = 4
    /\ \E k \in 1..Len(sends) :
          /\ sends[k].conversationId = 1
          /\ sends[k].delivered # <<>>
          /\ sends[k].queue # <<>>

(***************************************************************************)
(* C22.  A step of a send for conversation c leaves the other              *)
(* conversations unchanged: the step that starts the send, and every       *)
(* step that handles one of its events; such an event step changes the id  *)
(* or the content of no message of c but the send's own placeholder, the   *)
(* message the send appended second.                                       *)
(***************************************************************************)
\* the position at which the k-th send appended its placeholder
OwnSlot(k) ==
    Len(HistoryMessages(sends[k].conversationId))
        + 2 * Cardinality({h \in 1..k : sends[h].conversationId = sends[k].conversationId})

C22_StartStep ==
    Len(sends') = Len(sends) + 1 =>
        \A i \in 1..Len(conversations) :
            conversations[i].id # sends'[Len(sends')].conversationId =>
                conversations'[i] = conversations[i]

C22_EventStep ==
    \A k \in 1..Len(sends) :
        (Len(sends') = Len(sends) /\ sends'[k].delivered # sends[k].delivered) =>
            \A i \in 1..Len(conversations) :
                IF conversations[i].id # sends[k].conversationId
                THEN conversations'[i] = conversations[i]
                ELSE /\ Len(conversations'[i].messages) = Len(conversations[i].messages)
                     /\ \A j \in 1..Len(conversations[i].messages) :
                           j # OwnSlot(k) =>
                              /\ conversations'[i].messages[j].id
                                    = conversations[i].messages[j].id
                              /\ conversations'[i].messages[j].content
                                    = conversations[i].messages[j].content

C22_SendFrame == [][C22_StartStep /\ C22_EventStep]_vars

(***************************************************************************)
(* C23.  The step that starts a send appends to the target conversation    *)
(* the user message and then the assistant placeholder, before any event   *)
(* is handled; a step that handles an event changes neither the number of  *)
(* messages nor any message but the last one, which stays an assistant     *)
(* message; when the send has returned the messages are those the          *)
(* conversation had before, the user message, and one assistant message.   *)
(***************************************************************************)
Roles(messages) == [j \in 1..Len(messages) |-> messages[j].role]

C23_StartStep ==
    (pc = "idle" /\ pc' = "streaming") =>
        /\ delivered' = <<>>
        /\ \E i \in 1..Len(conversations) :
              /\ conversations[i].id = conversationId'
              /\ conversations'[i].messages =
                    conversations[i].messages
                        \o << [id |-> userMessageId', role |-> "user", content |-> <<"q">>],
                              [id |-> tempAiMessageId', role |-> "assistant",
                               content |-> <<>>] >>

C23_EventStep ==
    delivered' # delivered =>
        \A i \in 1..Len(conversations) :
            LET before == conversations[i].messages
                after  == conversations'[i].messages
            IN  /\ Len(after) = Len(before)
                /\ Roles(after) = Roles(before)
                /\ \A j \in 1..(Len(before) - 1) : after[j] = before[j]

C23_AppendedInOrder ==
    /\ [][C23_StartStep /\ C23_EventStep]_vars
    /\ [](pc = "returned" =>
            LET n == Len(HistoryMessages(conversationId))
                messages == TargetConversation.messages
            IN  /\ Len(messages) = n + 2
                /\ SubSeq(messages, 1, n) = HistoryMessages(conversationId)
                /\ messages[n + 1] = UserMessage(userMessageId, <<"q">>)
                /\ messages[n + 2].role = "assistant")

C23_Witness ==
    /\ pc = "returned"
    /\ Done
    /\ conversationId = 1
    /\ Len(TargetConversation.messages) = 4
    /\ TargetConversation.messages[3].role = "user"
    /\ TargetConversation.messages[4].id = 42

(***************************************************************************)
(* C24.  A call of handleSendMessage that starts a send has isLoading true *)
(* for as long as the send has not settled, and when the send settles,     *)
(* resolved or rejected, isLoading is false again; a rejected send also    *)
(* sets the page error.  A send starts, and isLoading becomes true, only   *)
(* with an active conversation and a user: otherwise the call changes      *)
(* nothing of the page's loading state.  Every loading page eventually     *)
(* stops loading.                                                          *)
(***************************************************************************)
C24_Step ==
    /\ (inFlight' > inFlight \/ (isLoading' /\ ~isLoading)) =>
            /\ StartsSend(activeConversationId, user)
            /\ isLoading'
    /\ inFlight' < inFlight =>
            /\ ~isLoading'
            /\ settled'.op = "send"
            /\ ~settled'.ok => pageError' # "null"

C24_LoadingCleared ==
    /\ [](inFlight > 0 => isLoading)
    /\ [][C24_Step]_vars
    /\ (isLoading ~> ~isLoading)

C24_Witness ==
    /\ settled = [op |-> "send", ok |-> FALSE]
    /\ inFlight = 0
    /\ ~isLoading
    /\ pageError # "null"

(***************************************************************************)
(* C25.  A send whose response held no "data: " line, so that no event was *)
(* delivered, does not complete as a success that leaves the empty         *)
(* placeholder with its provisional id: when sendMessage has returned, the *)
(* hook's error is set or the placeholder is gone.                         *)
(***************************************************************************)
C25_NoEventIsFailure ==
    (pc = "returned" /\ NoDataLine) =>
        \/ error # "null"
        \/ MessagesWithId(tempAiMessageId) = {}

(***************************************************************************)
(* C26.  Once the page is loaded, the token ApiClient holds in memory is   *)
(* the item 'token' of localStorage (both absent, or both the same text),  *)
(* in every state reached through construction, the startup check of       *)
(* useAuth, login, register and logout.                                    *)
(***************************************************************************)
C26_TokenIsStored == loaded => token = storedToken

(***************************************************************************)
(* C27.  logout leaves no token and no user in localStorage and in the     *)
(* client, and authState.user null; from then until the next successful    *)
(* login the client holds no token and every request is sent without an    *)
(* Authorization header.  A failed login changes neither the token, nor    *)
(* the stored token and user, nor authState.user.                          *)
(***************************************************************************)
C27_Step ==
    /\ (loggedOut' /\ ~loggedOut) =>
            /\ token' = "null"
            /\ storedToken' = "null"
            /\ storedUser' = "null"
            /\ user' = "null"
    /\ (loggedOut' /\ authorization' # authorization) => authorization' \in {"none", "no request"}
    /\ (logins' < logins /\ settled'.op = "login" /\ ~settled'.ok) =>
            UNCHANGED <<token, storedToken, storedUser, user>>

C27_LoggedOut ==
    /\ [](loggedOut => token = "null" /\ storedToken = "null" /\ storedUser = "null"
                       /\ authorization # "Bearer")
    /\ [][C27_Step]_vars

C27_Witness ==
    /\ loggedOut
    /\ authorization = "none"
    /\ settled = [op |-> "login", ok |-> FALSE]
    /\ thrown # "null"

(***************************************************************************)
(* The composite content read back: sendMessage writes                     *)
(* formattedContent from the two buffers, MessageBubble parses it.         *)
(***************************************************************************)
MaxPieces == 3

\* what the message of a thinking event or the delta of an answer event
\* may hold: text, and the texts of the two markers
Pieces == {<<"a">>, ThinkingMarker, ModelMarker}

\* a thinking event, the render of formattedContent, and MessageBubble's
\* parseContent of message.content
ThinkingEvent(piece) ==
    /\ eventCount < MaxPieces
    /\ eventCount' = eventCount + 1
    /\ thinkingText' = AppendThinking(thinkingText, piece)
    /\ answerText' = answerText
    /\ parseResult' = parseContent(FormattedContent(thinkingText', answerText'))
    /\ UNCHANGED <<conversations, now, sendVars, accVars, streamVars, delivered, chatVars,
                   convVars, sends, bubbleVars, pageVars, authVars, areaVars>>

\* the same for a text_message_delta event
AnswerEvent(piece) ==
    /\ eventCount < MaxPieces
    /\ eventCount' = eventCount + 1
    /\ thinkingText' = thinkingText
    /\ answerText' = AppendAnswer(answerText, piece)
    /\ parseResult' = parseContent(FormattedContent(thinkingText', answerText'))
    /\ UNCHANGED <<conversations, now, sendVars, accVars, streamVars, delivered, chatVars,
                   convVars, sends, bubbleVars, pageVars, authVars, areaVars>>

NextParse ==
    \/ \E piece \in Pieces : ThinkingEvent(piece)
    \/ \E piece \in Pieces : AnswerEvent(piece)

SpecParse == Init /\ [][NextParse]_vars

(***************************************************************************)
(* C28.  parseContent inverts the composite encoding: with a non-empty     *)
(* thinking text T and any answer A the parse of the composite is          *)
(* (trim(T), trim(A)), and with no thinking text the parse of the content  *)
(* is ('', A); for all texts, those that contain the markers included.     *)
(***************************************************************************)
C28_ParseInverts ==
    parseResult = IF thinkingText # <<>>
                  THEN [thinking |-> Trim(thinkingText), model |-> Trim(answerText)]
                  ELSE [thinking |-> <<>>, model |-> answerText]

\* the same for texts that hold neither marker
C28_MarkerFree ==
    (/\ ~Includes(thinkingText, ThinkingMarker) /\ ~Includes(thinkingText, ModelMarker)
     /\ ~Includes(answerText, ThinkingMarker) /\ ~Includes(answerText, ModelMarker))
        => C28_ParseInverts

(***************************************************************************)
(* ChatArea: the two effects on [messages, isLoading] that share           *)
(* prevMessageCountRef, run in the order of their declaration after every  *)
(* commit.  ChatArea is rendered for the active conversation of a user;    *)
(* when it is not rendered its state is gone.                              *)
(***************************************************************************)
AreaMounted(active, u) == active # NoConversation /\ u # "null"

\* the scroll effect: prevMessageCountRef.current = messages.length
ScrollEffect(ref, messages) == Len(messages)

\* the effect that fills streamingMessageIds, reading the ref after the
\* scroll effect wrote it
StreamingEffect(ids, ref, messages, loading) ==
    IF Len(messages) > ref /\ Len(messages) > 0
    THEN LET latestMessage == messages[Len(messages)]
         IN  IF latestMessage.role = "assistant" /\ ~loading
             THEN ids \cup {latestMessage.id}
             ELSE ids
    ELSE ids

\* the commit that follows a change of the props, with its effects
AreaCommit ==
    LET mountedBefore == AreaMounted(activeConversationId, user)
        messages      == MessagesOf(activeConversationId)'
        before        == IF mountedBefore THEN Len(MessagesOf(activeConversationId)) ELSE 0
        ids           == IF mountedBefore THEN streamingMessageIds ELSE {}
        ref           == IF mountedBefore THEN prevMessageCountRef ELSE 0
    IN  IF AreaMounted(activeConversationId', user')
        THEN /\ prevMessageCountRef' = ScrollEffect(ref, messages)
             /\ prevIsLoadingRef' = isLoading'
             /\ streamingMessageIds' =
                    StreamingEffect(ids, ScrollEffect(ref, messages), messages, isLoading')
             /\ newlyAppended' =
                    IF /\ mountedBefore
                       /\ Len(messages) > before
                       /\ messages[Len(messages)].role = "assistant"
                       /\ ~isLoading'
                    THEN messages[Len(messages)].id
                    ELSE 0
        ELSE /\ prevMessageCountRef' = 0
             /\ prevIsLoadingRef' = FALSE
             /\ streamingMessageIds' = {}
             /\ newlyAppended' = 0

areaFrame == <<accVars, streamVars, delivered, chatVars, calls, created, settled, sends,
               bubbleVars, pageError, input, uploading, uploadedFiles, showToolMenu, authVars,
               parseVars>>

\* a conversation of the sidebar is selected
AreaSelect(id) ==
    /\ user # "null"
    /\ \E i \in 1..Len(conversations) : conversations[i].id = id
    /\ activeConversationId' = id
    /\ UNCHANGED <<conversations, now, sendVars, isLoading, disabled, inFlight, areaFrame>>
    /\ AreaCommit

\* handleSendMessage and the two appends of sendMessage
AreaSend(content) ==
    /\ AreaMounted(activeConversationId, user)
    /\ ~disabled
    /\ pc = "idle"
    /\ pc' = "streaming"
    /\ conversationId' = activeConversationId
    /\ userMessageId' = DateNow(now)
    /\ tempAiMessageId' = DateNow(now) + 1
    /\ conversations' =
          AddMessage(AddMessage(conversations, activeConversationId,
                                UserMessage(DateNow(now), content), now),
                     activeConversationId, TempAiMessage(DateNow(now) + 1), now)
    /\ isLoading' = TRUE
    /\ disabled' = Disabled(isLoading')
    /\ inFlight' = inFlight + 1
    /\ UNCHANGED <<now, activeConversationId, areaFrame>>
    /\ AreaCommit

\* the text_message_end event of the send
AreaEnd(finalId, content) ==
    /\ pc = "streaming"
    /\ MessagesWithId(tempAiMessageId) # {}
    /\ conversations' =
          ReplaceMessage(conversations, conversationId, tempAiMessageId, finalId, content, now)
    /\ UNCHANGED <<now, sendVars, activeConversationId, isLoading, disabled, inFlight,
                   areaFrame>>
    /\ AreaCommit

\* the send settles: the catch of sendMessage when it failed, and the
\* finally of handleSendMessage
AreaSettle(ok) ==
    /\ pc = "streaming"
    /\ pc' = IF ok THEN "returned" ELSE "failed"
    /\ conversations' = IF ok THEN conversations
                        ELSE RemoveTemporary(conversations, conversationId, DateNow(now), now)
    /\ isLoading' = LoadingAfterSend(ok)
    /\ disabled' = Disabled(isLoading')
    /\ inFlight' = inFlight - 1
    /\ UNCHANGED <<now, conversationId, userMessageId, tempAiMessageId, activeConversationId,
                   areaFrame>>
    /\ AreaCommit

FinalIds == {42, 43}

NextArea ==
    \/ \E st \in StoredStates : PageLoad(st)
    \/ \E id \in ConversationIds : AreaSelect(id)
    \/ \E content \in AnswerTexts \ {<<>>} : AreaSend(content)
    \/ \E finalId \in FinalIds, content \in AnswerTexts : AreaEnd(finalId, content)
    \/ \E ok \in BOOLEAN : AreaSettle(ok)

SpecArea == Init /\ [][NextArea]_vars

(***************************************************************************)
(* C29.  When the last commit appended an assistant message as the last    *)
(* message of the displayed conversation while isLoading was false, the id *)
(* of that message is in streamingMessageIds, so that getIsNewMessage       *)
(* gives its MessageBubble isNewMessage = true.                            *)
(***************************************************************************)
C29_NewMessageStreams == newlyAppended # 0 => newlyAppended \in streamingMessageIds

\* no message at all is ever given isNewMessage = true
C29_NeverNew == streamingMessageIds = {}

====
